---------------------------- MODULE Spec2Model ----------------------------
(***************************************************************************)
(* Hand-history reconstruction scripts of the texasholdem repository:      *)
(*   src/scrape_t1_advanced.py  parser, preflop betting ledger, rotation   *)
(*   src/scrape_t1.py           rotation and net profit, 3 seats           *)
(*   src/data_script.py         net profit, dynamic seat columns           *)
(*                                                                         *)
(* Python values are modelled as follows.                                  *)
(*   None / a value     the sequences << >> and << v >>                    *)
(*   list               a TLA+ sequence (1-based); Python index p is p+1   *)
(*   dict keyed by int  a function whose DOMAIN is the key set             *)
(*   uncaught exception an "err"/"crashed" value; nothing is returned      *)
(***************************************************************************)
EXTENDS Integers, Sequences, FiniteSets, TLC

VARIABLES
    \* ---- replay of one preflop stream (calculate_voluntary_pot_and_preflop_raise)
    num_players,    \* argument num_players
    big_blind,      \* argument big_blind   (<< >> is None)
    small_blind,    \* argument small_blind (<< >> is None)
    ledger,         \* the function's locals: player_bets, voluntary_pot, ...
    rpc,            \* "idle" | "loop" | "returned" | "KeyError"
    nsteps,         \* number of actions of the stream consumed so far
    kinds_seen,     \* history: per seat id, the action kinds met so far
    pos_added,      \* history: sum of the amounts > 0 added to voluntary_pot
    neg_added,      \* history: number of amounts < 0 added to voluntary_pot
    \* ---- one run of a script's main() over the ordered documents
    script,         \* "scrape_t1_advanced" | "scrape_t1" | "data_script"
    bpc,            \* "idle" | "loop" | "rows" | "done" | the exception that ended the run
    ndocs,          \* number of paths consumed by "for path in paths"
    game_index,     \* the local game_index (game_number in data_script)
    hands,          \* the list hands
    rows,           \* the list rows, as written to the CSV file
    trace,          \* history: per appended hand, the raw chips and the rotation used
    last_doc,       \* history: the document of the last path consumed (<< >> before the first)
    \* ---- one document through scrape_t1_advanced's parser and ledger
    doc,            \* the lines of the document
    dpc,            \* "idle" | "read" | "parsed" | "skipped" | "replayed" | "KeyError"
    parsed,         \* starting_chips, winner, big_blind, small_blind, preflop_actions
    result,         \* the locals of calculate_voluntary_pot_and_preflop_raise at its end
    \* ---- the ordering of the documents of a batch (first statement of main)
    paths,          \* the file names glob returns, in the order it returns them
    sorted_paths,   \* sorted(paths, key=extract_file_index)
    ppc,            \* "idle" | "glob" | "sorted"
    \* ---- scrape_t2.main: the search for the hand histories and their parsing
    directory,      \* the file numbers present: 0 is texas.pgn, k is texas(k).pgn
    pgn_files,      \* the list get_pgn_files builds
    file_i,         \* the local i of get_pgn_files
    tpc,            \* "idle" | "first" | "search" | "parse" | "done"
    t2_index,       \* the position enumerate(pgn_files) has reached
    results,        \* the list main writes to the CSV
    parse_log,      \* history: the file and content of every call of parse_pgn_file
    result_src,     \* history: for each result, the call of parse_log it came from
    \* ---- one call of openai_agent or gemini_agent
    context,        \* available_actions and raise_range of the PlayerContext
    response,       \* what the model answered: the text handed to json.loads
    outcome,        \* the tuple returned or the exception that left the agent
    apc             \* "idle" | "ask" | "openai_agent" | "gemini_agent"

vars == << num_players, big_blind, small_blind, ledger, rpc, nsteps,
           kinds_seen, pos_added, neg_added,
           script, bpc, ndocs, game_index, hands, rows, trace, last_doc,
           doc, dpc, parsed, result,
           paths, sorted_paths, ppc,
           directory, pgn_files, file_i, tpc, t2_index, results, parse_log,
           result_src,
           context, response, outcome, apc >>

agentVars == << context, response, outcome, apc >>

t2Vars == << directory, pgn_files, file_i, tpc, t2_index, results, parse_log,
             result_src >>

pathVars == << paths, sorted_paths, ppc >>

docVars == << doc, dpc, parsed, result >>

batchVars == << script, bpc, ndocs, game_index, hands, rows, trace, last_doc >>

replayVars == << num_players, big_blind, small_blind, ledger, rpc, nsteps,
                 kinds_seen, pos_added, neg_added >>

-----------------------------------------------------------------------------
(* Bounds of the model *)

\* longest preflop stream replayed step by step
MaxActions == 3

\* largest table size of a replayed hand
MaxPlayers == 3

\* most documents of one batch
MaxDocs == 4

\* most file names glob returns
MaxPaths == 3

\* largest file number k of a texas(k).pgn in the directory
MaxFileIndex == 3

-----------------------------------------------------------------------------
(* Python helpers *)

None == << >>

Some(x) == << x >>

IsNone(o) == o = << >>

\* range(n)
Range(n) == 0 .. (n - 1)

RECURSIVE SumOver(_, _)
\* sum(f[k] for k in S)
SumOver(f, S) ==
    IF S = {} THEN 0
    ELSE LET k == CHOOSE x \in S : TRUE
         IN  f[k] + SumOver(f, S \ {k})

-----------------------------------------------------------------------------
(* scrape_t1_advanced.calculate_voluntary_pot_and_preflop_raise *)

\* InitLedger with the posted blinds also entered in voluntary_pot
InitLedgerBlindsVoluntary(n, bb, sb) ==
    LET bets == [i \in Range(n) |->
                   IF i = 1 /\ ~IsNone(sb) /\ 1 < n THEN sb[1]
                   ELSE IF i = 2 /\ ~IsNone(bb) /\ 2 < n THEN bb[1]
                   ELSE 0]
    IN  [ voluntary_pot    |-> bets,
          preflop_raised   |-> [i \in Range(n) |-> FALSE],
          player_bets      |-> bets,
          current_raise_to |-> IF ~IsNone(bb) THEN bb[1] ELSE 0,
          err              |-> FALSE ]

\* lines 92-106: the locals before the loop
InitLedger(n, bb, sb) ==
    [ voluntary_pot    |-> [i \in Range(n) |-> 0],
      preflop_raised   |-> [i \in Range(n) |-> FALSE],
      player_bets      |-> [i \in Range(n) |->
                              IF i = 1 /\ ~IsNone(sb) /\ 1 < n THEN sb[1]
                              ELSE IF i = 2 /\ ~IsNone(bb) /\ 2 < n THEN bb[1]
                              ELSE 0],
      current_raise_to |-> IF ~IsNone(bb) THEN bb[1] ELSE 0,
      err              |-> FALSE ]

\* MinRaise as the current level plus one big blind
MinRaiseByBlind(L, bb) ==
    L.current_raise_to + (IF ~IsNone(bb) THEN bb[1] ELSE 0)

\* line 125: the inferred target of a RAISE without total
MinRaise(L, bb) ==
    IF L.current_raise_to > 0 THEN L.current_raise_to * 2
    ELSE IF ~IsNone(bb) /\ bb[1] # 0 THEN bb[1] * 2 ELSE 0

\* AmountToAdd without the subtraction of what the seat has already committed
AmountToAddIgnoringCommitted(L, a, bb) ==
    IF ~IsNone(a.total) THEN a.total[1]
    ELSE IF a.action = "RAISE" THEN MinRaise(L, bb)
    ELSE L.current_raise_to

\* lines 118, 126, 134, 139: amount_to_add of a RAISE or CALL by a known seat
AmountToAdd(L, a, bb) ==
    IF ~IsNone(a.total) THEN a.total[1] - L.player_bets[a.player_id]
    ELSE IF a.action = "RAISE" THEN MinRaise(L, bb) - L.player_bets[a.player_id]
    ELSE L.current_raise_to - L.player_bets[a.player_id]

\* Applies without the test "if amount_to_add > 0"
AppliesAlways(L, a, bb) == TRUE

\* lines 116-121 and 132-136 apply the amount unconditionally;
\* lines 127 and 140 apply it only "if amount_to_add > 0"
Applies(L, a, bb) ==
    \/ ~IsNone(a.total)
    \/ AmountToAdd(L, a, bb) > 0

\* NewBet that never lowers what the seat has committed
NewBetNeverLower(L, a, bb) ==
    LET t == IF ~IsNone(a.total) THEN a.total[1]
             ELSE IF a.action = "RAISE" THEN MinRaise(L, bb)
             ELSE L.current_raise_to
    IN  IF t < L.player_bets[a.player_id] THEN L.player_bets[a.player_id] ELSE t

\* lines 119-120, 128-129, 135, 141: the new committed amount of the seat
NewBet(L, a, bb) ==
    IF ~IsNone(a.total) THEN a.total[1]
    ELSE IF a.action = "RAISE" THEN MinRaise(L, bb)
    ELSE L.current_raise_to

\* lines 120, 129: a RAISE moves current_raise_to, a CALL never does
NewRaiseTo(L, a, bb) ==
    IF a.action = "RAISE" THEN NewBet(L, a, bb) ELSE L.current_raise_to

\* SetRaised that sets the flag only of a seat that has no entry yet
SetRaisedOnlyNewKey(raised, id) ==
    [k \in DOMAIN raised \cup {id} |-> IF k \in DOMAIN raised THEN raised[k] ELSE TRUE]

\* line 115: preflop_raised[player_id] = True (adds the key when it is missing)
SetRaised(raised, id) ==
    [k \in DOMAIN raised \cup {id} |-> IF k = id THEN TRUE ELSE raised[k]]

\* ApplyAction in which every kind other than RAISE, CHECK and FOLD acts as a CALL
ApplyActionUnknownAsCall(L, a, bb) ==
    IF a.action \in {"CHECK", "FOLD"} THEN L
    ELSE
      LET R == IF a.action = "RAISE"
                 THEN [L EXCEPT !.preflop_raised = SetRaised(@, a.player_id)]
                 ELSE L
      IN  IF a.player_id \notin DOMAIN L.player_bets
            THEN [R EXCEPT !.err = TRUE]
          ELSE IF ~Applies(L, a, bb) THEN R
          ELSE [R EXCEPT
                  !.player_bets[a.player_id]   = NewBet(L, a, bb),
                  !.current_raise_to           = NewRaiseTo(L, a, bb),
                  !.voluntary_pot[a.player_id] = @ + AmountToAdd(L, a, bb)]

\* ApplyAction in which a FOLD gives up what the seat has committed
ApplyActionFoldForfeits(L, a, bb) ==
    IF a.action = "FOLD" /\ a.player_id \in DOMAIN L.player_bets
      THEN [L EXCEPT !.player_bets[a.player_id] = 0]
    ELSE IF a.action \notin {"RAISE", "CALL"} THEN L
    ELSE
      LET R == IF a.action = "RAISE"
                 THEN [L EXCEPT !.preflop_raised = SetRaised(@, a.player_id)]
                 ELSE L
      IN  IF a.player_id \notin DOMAIN L.player_bets
            THEN [R EXCEPT !.err = TRUE]
          ELSE IF ~Applies(L, a, bb) THEN R
          ELSE [R EXCEPT
                  !.player_bets[a.player_id]   = NewBet(L, a, bb),
                  !.current_raise_to           = NewRaiseTo(L, a, bb),
                  !.voluntary_pot[a.player_id] = @ + AmountToAdd(L, a, bb)]

\* lines 110-148: one iteration of "for action in preflop_actions"
ApplyAction(L, a, bb) ==
    IF a.action \notin {"RAISE", "CALL"} THEN L          \* CHECK, FOLD, anything else
    ELSE
      LET R == IF a.action = "RAISE"
                 THEN [L EXCEPT !.preflop_raised = SetRaised(@, a.player_id)]
                 ELSE L
      IN  IF a.player_id \notin DOMAIN L.player_bets
            THEN [R EXCEPT !.err = TRUE]                  \* KeyError: player_bets[player_id]
          ELSE IF ~Applies(L, a, bb) THEN R
          ELSE [R EXCEPT
                  !.player_bets[a.player_id]   = NewBet(L, a, bb),
                  !.current_raise_to           = NewRaiseTo(L, a, bb),
                  !.voluntary_pot[a.player_id] = @ + AmountToAdd(L, a, bb)]

RECURSIVE ReplayFrom(_, _, _)
\* lines 109-148: the whole loop, from ledger L
ReplayFrom(L, actions, bb) ==
    IF actions = << >> \/ L.err THEN L
    ELSE ReplayFrom(ApplyAction(L, Head(actions), bb), Tail(actions), bb)

\* lines 76-150: the function; the result is meaningful only when ~err
calculate_voluntary_pot_and_preflop_raise(preflop_actions, n, bb, sb) ==
    ReplayFrom(InitLedger(n, bb, sb), preflop_actions, bb)

-----------------------------------------------------------------------------
(* A hand-history document: a sequence of stripped lines.  A line is        *)
(*   label  the text the line starts with ("Player Chips:", "Winners:",     *)
(*          "Big Blind:", "Small Blind:", "PREFLOP", "FLOP", "TURN",        *)
(*          "RIVER", "SETTLE", "New Cards:", or "" for a numbered line)     *)
(*   nums   the comma-separated integers after the label (for Winners:      *)
(*          the content of the first [...] of the line)                     *)
(*   toks   the (seat,KIND[,total]) tokens ACTION_PATTERN finds in the line *)

Line(label, nums, toks) == [label |-> label, nums |-> nums, toks |-> toks]

Tok(seat, kind, total) == [player_id |-> seat, action |-> kind, total |-> total]

\* extract_winner returning the first listed seat of a tie
extract_winner_first(line) ==
    IF line.nums = << >> THEN None ELSE Some(line.nums[1])

\* scrape_t1_advanced.py lines 12-26
extract_winner(line) ==
    LET winners == line.nums              \* int(w) of every item of x.split(",")
    IN  IF winners = << >> THEN None       \* x == ""
        ELSE IF Len(winners) = 1 THEN Some(winners[1])
        ELSE IF Len(winners) > 1 THEN None \* tie
        ELSE None

\* int(x) of a whole bracket content raises ValueError when x holds a comma
IntRaises(line) == Len(line.nums) > 1

\* scrape_t1.py lines 9-14: the value returned when int(x) does not raise
extract_winner_t1(line) ==
    IF line.nums = << >> THEN None ELSE Some(line.nums[1])

\* data_script.py lines 11-20: the value returned when int(inner) does not raise
extract_winner_ds(line) ==
    IF line.nums = << >> THEN None ELSE Some(line.nums[1])

\* lines 28-32 (and scrape_t1.py 16-20, data_script.py 22-31): None when
\* PLAYER_CHIPS_PATTERN finds no number list after the label
extract_starting_chips(line) ==
    IF line.nums = << >> THEN None ELSE Some(line.nums)

RECURSIVE LastChips(_)
\* FirstChips in which every later Player Chips: line overwrites starting_chips
LastChips(lines) ==
    IF lines = << >> THEN None
    ELSE LET h == lines[Len(lines)]
         IN  IF h.label = "Player Chips:" /\ ~IsNone(extract_starting_chips(h))
               THEN extract_starting_chips(h)
             ELSE LastChips(SubSeq(lines, 1, Len(lines) - 1))

RECURSIVE FirstChips(_)
\* lines 177-178: "if starting_chips is None and s.startswith('Player Chips:')"
FirstChips(lines) ==
    IF lines = << >> THEN None
    ELSE IF Head(lines).label = "Player Chips:"
              /\ ~IsNone(extract_starting_chips(Head(lines)))
           THEN extract_starting_chips(Head(lines))
    ELSE FirstChips(Tail(lines))

RECURSIVE LastLabelled(_, _)
\* the last line of the document with the given label, or None
LastLabelled(lines, label) ==
    IF lines = << >> THEN None
    ELSE LET h == lines[Len(lines)]
         IN  IF h.label = label THEN Some(h)
             ELSE LastLabelled(SubSeq(lines, 1, Len(lines) - 1), label)

\* the script's own extract_winner
ExtractWinnerOf(script_name, line) ==
    CASE script_name = "scrape_t1_advanced" -> extract_winner(line)
      [] script_name = "scrape_t1"          -> extract_winner_t1(line)
      [] OTHER                              -> extract_winner_ds(line)

RECURSIVE WinnerFrom(_, _, _)
\* lines 179-180 (scrape_t1.py 45-46, data_script.py 69-70): every Winners: line
\* overwrites winner
WinnerFrom(lines, cur, script_name) ==
    IF lines = << >> THEN cur
    ELSE IF Head(lines).label = "Winners:"
           THEN WinnerFrom(Tail(lines), ExtractWinnerOf(script_name, Head(lines)), script_name)
    ELSE WinnerFrom(Tail(lines), cur, script_name)

\* scrape_t1.py line 46, data_script.py line 70: a Winners: line on which int() raises
WinnerRaises(lines, script_name) ==
    /\ script_name # "scrape_t1_advanced"
    /\ \E i \in 1 .. Len(lines) : lines[i].label = "Winners:" /\ IntRaises(lines[i])

\* lines 34-48: (big_blind, small_blind), each from the last line of its label
extract_blinds(lines) ==
    LET b  == LastLabelled(lines, "Big Blind:")
        sm == LastLabelled(lines, "Small Blind:")
    IN  << IF IsNone(b)  \/ b[1].nums = << >>  THEN None ELSE Some(b[1].nums[1]),
           IF IsNone(sm) \/ sm[1].nums = << >> THEN None ELSE Some(sm[1].nums[1]) >>

RECURSIVE ParseFromNoBreak(_, _, _)
\* ParseFrom without the "break" at the header that ends the preflop section
ParseFromNoBreak(lines, in_preflop, acc) ==
    IF lines = << >> THEN acc
    ELSE LET s == Head(lines)
         IN  IF s.label = "PREFLOP" /\ s.toks = << >>
               THEN ParseFromNoBreak(Tail(lines), TRUE, acc)
             ELSE IF in_preflop /\ s.label # "New Cards:"
               THEN ParseFromNoBreak(Tail(lines), in_preflop, acc \o s.toks)
             ELSE ParseFromNoBreak(Tail(lines), in_preflop, acc)

RECURSIVE ParseFrom(_, _, _)
\* lines 55-72: the loop over the lines, with the flag in_preflop and the list so far
ParseFrom(lines, in_preflop, acc) ==
    IF lines = << >> THEN acc
    ELSE LET s == Head(lines)
         IN  IF s.label = "PREFLOP" /\ s.toks = << >>
               THEN ParseFrom(Tail(lines), TRUE, acc)
             ELSE IF in_preflop
               THEN IF s.label \in {"FLOP", "SETTLE", "TURN", "RIVER"} THEN acc   \* break
                    ELSE IF s.label # "New Cards:"
                      THEN ParseFrom(Tail(lines), in_preflop, acc \o s.toks)
                    ELSE ParseFrom(Tail(lines), in_preflop, acc)
             ELSE ParseFrom(Tail(lines), in_preflop, acc)

\* lines 50-74
parse_preflop_actions(lines) == ParseFrom(lines, FALSE, << >>)

-----------------------------------------------------------------------------
(* Seat rotation *)

\* chips[-k:] for 0 <= k < len(chips): the whole list when k = 0
SliceFromNeg(chips, k) ==
    IF k = 0 THEN chips ELSE SubSeq(chips, Len(chips) - k + 1, Len(chips))

\* SliceToNeg with chips[:-0] taken for the whole list
SliceToNegWhole(chips, k) == SubSeq(chips, 1, Len(chips) - k)

\* chips[:-k] for 0 <= k < len(chips): the empty list when k = 0
SliceToNeg(chips, k) ==
    IF k = 0 THEN << >> ELSE SubSeq(chips, 1, Len(chips) - k)

\* scrape_t1_advanced.py lines 157-159, scrape_t1.py lines 27-29
rotate_right(chips, shift) ==
    LET sh == shift % Len(chips)
    IN  SliceFromNeg(chips, sh) \o SliceToNeg(chips, sh)

\* scrape_t1_advanced.py line 192: the shift handed to rotate_right
ShiftAdvanced(g, n) == g % n

\* scrape_t1.py line 51: the shift handed to rotate_right
ShiftT1(g, n) == g % 3

\* scrape_t1_advanced.py line 203
new_idx(i, g, n) == (i + (g % n)) % n

\* lines 200-205: a dict keyed 0..n-1 re-indexed through new_idx, as a list
RotateDict(d, g, n) == [p \in 1 .. n |-> d[new_idx(p - 1, g, n)]]

\* the raw seat ids of a table, in raw order
SeatIds(n) == [p \in 1 .. n |-> p - 1]

-----------------------------------------------------------------------------
(* Inputs of the step-by-step replay *)

\* table sizes of the replayed hands
TableSizes == 2 .. MaxPlayers

\* (big_blind, small_blind) as extract_blinds returns them
BlindInputs == { << Some(2), Some(1) >>, << None, None >> }

\* the optional third field of an action token
TotalInputs == { None, Some(0), Some(6) }

\* the action dicts parse_preflop_actions can hand over for a table of n seats;
\* seat n is one that is not at the table
ActionInputs(n) ==
    { [player_id |-> s, action |-> k, total |-> t] :
        s \in 0 .. n, k \in {"CALL", "RAISE"}, t \in TotalInputs }
    \cup
    { [player_id |-> s, action |-> k, total |-> None] :
        s \in 0 .. n, k \in {"CHECK", "FOLD", "BET"} }

\* the variables of a script run, while no script runs
BatchIdle ==
    /\ script = "none"
    /\ bpc = "idle"
    /\ ndocs = 0
    /\ game_index = 0
    /\ hands = << >>
    /\ rows = << >>
    /\ trace = << >>
    /\ last_doc = << >>

\* the variables of the path ordering, while no ordering runs
\* JSON null, a JSON number, a JSON string (its text is not looked at)
JsonNull == [ t |-> "null", v |-> 0 ]

JsonInt(n) == [ t |-> "int", v |-> n ]

JsonStr == [ t |-> "str", v |-> 0 ]

NoOutcome == [ kind |-> "none", action |-> "", total |-> JsonNull ]

AgentIdle ==
    /\ context = [ available_actions |-> {}, raise_range |-> None ]
    /\ response = [ json |-> "invalid", action |-> [ t |-> "absent", v |-> "" ],
                    total |-> JsonNull ]
    /\ outcome = NoOutcome
    /\ apc = "idle"

T2Idle ==
    /\ directory = {}
    /\ pgn_files = << >>
    /\ file_i = 0
    /\ tpc = "idle"
    /\ t2_index = 0
    /\ results = << >>
    /\ parse_log = << >>
    /\ result_src = << >>

PathsIdle ==
    /\ paths = << >>
    /\ sorted_paths = << >>
    /\ ppc = "idle"

\* what main() holds of a document after reading it (lines 167-186)
Parsed(chips, winner, bb, sb, actions) ==
    [starting_chips |-> chips, winner |-> winner, big_blind |-> bb,
     small_blind |-> sb, preflop_actions |-> actions]

\* the variables of a document run, while no document is read
DocIdle ==
    /\ doc = << >>
    /\ dpc = "idle"
    /\ parsed = Parsed(None, None, None, None, << >>)
    /\ result = InitLedger(0, None, None)

-----------------------------------------------------------------------------
(* Specification SpecReplay: one call of the function, event by event *)

InitReplay ==
    /\ num_players \in TableSizes
    /\ \E b \in BlindInputs : big_blind = b[1] /\ small_blind = b[2]
    /\ ledger = InitLedger(num_players, big_blind, small_blind)
    /\ rpc = "loop"
    /\ nsteps = 0
    /\ kinds_seen = [s \in 0 .. MaxPlayers + 1 |-> {}]
    /\ pos_added = 0
    /\ neg_added = 0
    /\ BatchIdle
    /\ DocIdle
    /\ PathsIdle
    /\ T2Idle
    /\ AgentIdle

\* one iteration of the loop at line 109, on the next action of the stream
ProcessAction ==
    /\ rpc = "loop"
    /\ nsteps < MaxActions
    /\ \E a \in ActionInputs(num_players) :
         LET L2    == ApplyAction(ledger, a, big_blind)
             added == IF a.action \in {"RAISE", "CALL"} /\ ~L2.err
                         /\ Applies(ledger, a, big_blind)
                        THEN AmountToAdd(ledger, a, big_blind) ELSE 0
         IN  /\ ledger' = L2
             /\ rpc' = IF L2.err THEN "KeyError" ELSE "loop"
             /\ kinds_seen' = [kinds_seen EXCEPT ![a.player_id] = @ \cup {a.action}]
             /\ pos_added' = IF added > 0 THEN pos_added + added ELSE pos_added
             /\ neg_added' = IF added < 0 THEN neg_added + 1 ELSE neg_added
    /\ nsteps' = nsteps + 1
    /\ UNCHANGED << num_players, big_blind, small_blind >>
    /\ UNCHANGED << batchVars, docVars, pathVars, t2Vars, agentVars >>

\* line 150: the stream is exhausted and the two dicts are returned
ReturnResult ==
    /\ rpc = "loop"
    /\ rpc' = "returned"
    /\ UNCHANGED << num_players, big_blind, small_blind, ledger, nsteps,
                    kinds_seen, pos_added, neg_added >>
    /\ UNCHANGED << batchVars, docVars, pathVars, t2Vars, agentVars >>

NextReplay == ProcessAction \/ ReturnResult

SpecReplay == InitReplay /\ [][NextReplay]_vars

-----------------------------------------------------------------------------
(* The documents of a batch *)

\* scenario A of the specification: 3 seats, blinds 1 and 2
DocA ==
    << Line("Player Chips:", << 500, 495, 507 >>, << >>),
       Line("Big Blind:", << 2 >>, << >>),
       Line("Small Blind:", << 1 >>, << >>),
       Line("PREFLOP", << >>, << >>),
       Line("", << >>, << Tok(0, "RAISE", Some(6)), Tok(1, "CALL", None), Tok(2, "FOLD", None) >>),
       Line("SETTLE", << >>, << >>),
       Line("Winners:", << 0 >>, << >>) >>

\* 3 seats, a flop, the big blind wins
DocB ==
    << Line("Player Chips:", << 506, 489, 505 >>, << >>),
       Line("Big Blind:", << 2 >>, << >>),
       Line("Small Blind:", << 1 >>, << >>),
       Line("PREFLOP", << >>, << >>),
       Line("", << >>, << Tok(0, "FOLD", None), Tok(1, "CALL", None), Tok(2, "CHECK", None) >>),
       Line("FLOP", << >>, << >>),
       Line("", << >>, << Tok(1, "CHECK", None), Tok(2, "RAISE", Some(4)) >>),
       Line("Winners:", << 2 >>, << >>) >>

\* no Player Chips: line
DocNoChips ==
    << Line("Big Blind:", << 2 >>, << >>),
       Line("Winners:", << 1 >>, << >>) >>

\* no Player Chips: line, two winners
DocNoChipsTie ==
    << Line("Winners:", << 0, 2 >>, << >>) >>

\* 3 seats, two winners
DocTie ==
    << Line("Player Chips:", << 504, 491, 505 >>, << >>),
       Line("PREFLOP", << >>, << >>),
       Line("", << >>, << Tok(0, "CALL", None) >>),
       Line("Winners:", << 0, 2 >>, << >>) >>

\* 4 seats
DocFourA ==
    << Line("Player Chips:", << 100, 200, 300, 400 >>, << >>),
       Line("Big Blind:", << 2 >>, << >>),
       Line("Small Blind:", << 1 >>, << >>),
       Line("PREFLOP", << >>, << >>),
       Line("", << >>, << Tok(3, "RAISE", Some(6)), Tok(0, "FOLD", None) >>),
       Line("Winners:", << >>, << >>) >>

\* 4 seats
DocFourB ==
    << Line("Player Chips:", << 110, 190, 310, 390 >>, << >>),
       Line("Winners:", << 3 >>, << >>) >>

\* 2 seats
DocTwo ==
    << Line("Player Chips:", << 50, 60 >>, << >>),
       Line("Winners:", << 1 >>, << >>) >>

\* 1 seat
DocOne ==
    << Line("Player Chips:", << 70 >>, << >>),
       Line("Winners:", << 0 >>, << >>) >>

BatchDocs ==
    { DocA, DocB, DocNoChips, DocNoChipsTie, DocTie, DocFourA, DocFourB, DocTwo, DocOne }

Scripts == { "scrape_t1_advanced", "scrape_t1", "data_script" }

-----------------------------------------------------------------------------
(* main() of the three scripts *)

\* a tuple of hands
Hand(g, w, chips, vp, pr) ==
    [game_index |-> g, winner |-> w, chips |-> chips, vp |-> vp, pr |-> pr]

\* a CSV row; net cells are << v >> or << >> for the blank cell ""
Row(g, w, start, net, vp, pr) ==
    [game_index |-> g, winner |-> w, start |-> start, net |-> net, vp |-> vp, pr |-> pr]

\* IndexAfterSkip counting the skipped document
IndexAfterSkipCounted(g) == g + 1

\* scrape_t1_advanced.py lines 188-189 (scrape_t1.py 48-49, data_script.py 72-74):
\* "continue" leaves game_index as it is
IndexAfterSkip(g) == g

\* scrape_t1_advanced.py line 208 (scrape_t1.py 54, data_script.py 83)
IndexAfterAppend(g) == g + 1

\* the history entry of an appended hand
\*   path_pos   position of the hand's document in paths (0-based)
\*   raw_chips  the starting chips as read, before rotation
\*   shift      rotate_right's local shift after "shift %= len(chips)"
\*   chip_src   for every emitted index, the raw seat whose chips stand there
\*   vp_src     for every emitted index, the raw seat whose voluntary_pot and
\*              preflop_raised stand there (<< >> when the script emits none)
TraceEntry(pos, raw, shift, chip_src, vp_src) ==
    [path_pos |-> pos, raw_chips |-> raw, shift |-> shift,
     chip_src |-> chip_src, vp_src |-> vp_src]

\* a document without starting chips: lines 188-189
SkipDocument ==
    /\ game_index' = IndexAfterSkip(game_index)
    /\ UNCHANGED << script, bpc, hands, rows, trace >>

\* scrape_t1_advanced.py lines 166-208: one iteration of "for path in paths"
AdvProcessDocument ==
    /\ script = "scrape_t1_advanced"
    /\ bpc = "loop"
    /\ ndocs < MaxDocs
    /\ ndocs' = ndocs + 1
    /\ \E d \in BatchDocs :
       /\ last_doc' = d
       /\ LET starting_chips == FirstChips(d)
             winner         == WinnerFrom(d, None, script)
             blinds         == extract_blinds(d)
             preflop        == parse_preflop_actions(d)
         IN  IF IsNone(starting_chips) THEN SkipDocument
             ELSE
               LET chips == starting_chips[1]
                   n     == Len(chips)
                   shift == ShiftAdvanced(game_index, n)
                   r     == rotate_right(chips, shift)
                   L     == calculate_voluntary_pot_and_preflop_raise(
                                preflop, n, blinds[1], blinds[2])
               IN  IF L.err
                     THEN /\ bpc' = "KeyError"
                          /\ UNCHANGED << script, game_index, hands, rows, trace >>
                     ELSE /\ hands' = Append(hands,
                                 Hand(game_index, winner, r,
                                      RotateDict(L.voluntary_pot, game_index, n),
                                      RotateDict(L.preflop_raised, game_index, n)))
                          /\ trace' = Append(trace,
                                 TraceEntry(ndocs, chips, shift % n,
                                            rotate_right(SeatIds(n), shift),
                                            [p \in 1 .. n |-> new_idx(p - 1, game_index, n)]))
                          /\ game_index' = IndexAfterAppend(game_index)
                          /\ UNCHANGED << script, bpc, rows >>
    /\ UNCHANGED << replayVars, docVars, pathVars, t2Vars, agentVars >>

\* scrape_t1.py lines 36-54: one iteration of "for path in paths"
T1ProcessDocument ==
    /\ script = "scrape_t1"
    /\ bpc = "loop"
    /\ ndocs < MaxDocs
    /\ ndocs' = ndocs + 1
    /\ \E d \in BatchDocs :
       /\ last_doc' = d
       /\ LET starting_chips == FirstChips(d)
             winner         == WinnerFrom(d, None, script)
         IN  IF WinnerRaises(d, script)
               THEN /\ bpc' = "ValueError"
                    /\ UNCHANGED << script, game_index, hands, rows, trace >>
             ELSE IF IsNone(starting_chips) THEN SkipDocument
             ELSE
               LET chips == starting_chips[1]
                   n     == Len(chips)
                   shift == ShiftT1(game_index, n)
               IN  /\ hands' = Append(hands,
                          Hand(game_index, winner, rotate_right(chips, shift), << >>, << >>))
                   /\ trace' = Append(trace,
                          TraceEntry(ndocs, chips, shift % n, rotate_right(SeatIds(n), shift), << >>))
                   /\ game_index' = IndexAfterAppend(game_index)
                   /\ UNCHANGED << script, bpc, rows >>
    /\ UNCHANGED << replayVars, docVars, pathVars, t2Vars, agentVars >>

\* data_script.py lines 58-83: one iteration of "for path in paths"
DsProcessDocument ==
    /\ script = "data_script"
    /\ bpc = "loop"
    /\ ndocs < MaxDocs
    /\ ndocs' = ndocs + 1
    /\ \E d \in BatchDocs :
       /\ last_doc' = d
       /\ LET starting_chips == FirstChips(d)
             winner         == WinnerFrom(d, None, script)
         IN  IF WinnerRaises(d, script)
               THEN /\ bpc' = "ValueError"
                    /\ UNCHANGED << script, game_index, hands, rows, trace >>
             ELSE IF IsNone(starting_chips) THEN SkipDocument
             ELSE
               LET chips == starting_chips[1]
               IN  /\ hands' = Append(hands, Hand(game_index, winner, chips, << >>, << >>))
                   /\ trace' = Append(trace,
                          TraceEntry(ndocs, chips, 0, SeatIds(Len(chips)), << >>))
                   /\ game_index' = IndexAfterAppend(game_index)
                   /\ UNCHANGED << script, bpc, rows >>
    /\ UNCHANGED << replayVars, docVars, pathVars, t2Vars, agentVars >>

\* the paths are exhausted: the first loop ends
EndOfPaths ==
    /\ bpc = "loop"
    /\ bpc' = "rows"
    /\ UNCHANGED << script, ndocs, game_index, hands, rows, trace, last_doc >>
    /\ UNCHANGED << replayVars, docVars, pathVars, t2Vars, agentVars >>

\* scrape_t1_advanced.py lines 213-219, scrape_t1.py lines 59-65: net0, net1, net2
NetThree(hs, i) ==
    IF i < Len(hs)
      THEN [p \in 1 .. 3 |-> Some(hs[i + 1].chips[p] - hs[i].chips[p])]
      ELSE [p \in 1 .. 3 |-> None]

\* chips[2], next_chips[2], vp[2], pr[2]: an index past the end of a hand's lists
IndexErrorIn(hs) == \E i \in 1 .. Len(hs) : Len(hs[i].chips) < 3

\* scrape_t1_advanced.py lines 210-247: the second loop and the CSV file
AdvBuildRows ==
    /\ script = "scrape_t1_advanced"
    /\ bpc = "rows"
    /\ IF IndexErrorIn(hands)
         THEN /\ bpc' = "IndexError"
              /\ rows' = << >>
         ELSE /\ bpc' = "done"
              /\ rows' = [i \in 1 .. Len(hands) |->
                            Row(hands[i].game_index, hands[i].winner,
                                SubSeq(hands[i].chips, 1, 3), NetThree(hands, i),
                                SubSeq(hands[i].vp, 1, 3), SubSeq(hands[i].pr, 1, 3))]
    /\ UNCHANGED << script, ndocs, game_index, hands, trace, last_doc >>
    /\ UNCHANGED << replayVars, docVars, pathVars, t2Vars, agentVars >>

\* scrape_t1.py lines 56-85: the second loop and the CSV file
T1BuildRows ==
    /\ script = "scrape_t1"
    /\ bpc = "rows"
    /\ IF IndexErrorIn(hands)
         THEN /\ bpc' = "IndexError"
              /\ rows' = << >>
         ELSE /\ bpc' = "done"
              /\ rows' = [i \in 1 .. Len(hands) |->
                            Row(hands[i].game_index, hands[i].winner,
                                SubSeq(hands[i].chips, 1, 3), NetThree(hands, i),
                                << >>, << >>)]
    /\ UNCHANGED << script, ndocs, game_index, hands, trace, last_doc >>
    /\ UNCHANGED << replayVars, docVars, pathVars, t2Vars, agentVars >>

Min(a, b) == IF a < b THEN a ELSE b

\* data_script.py lines 96-104: the list profits of hand i, for num_players columns
Profits(hs, i, np) ==
    IF i < Len(hs)
      THEN LET n == Min(Min(Len(hs[i].chips), Len(hs[i + 1].chips)), np)
           IN  [j \in 1 .. n |-> Some(hs[i + 1].chips[j] - hs[i].chips[j])]
      ELSE [j \in 1 .. np |-> None]

\* data_script.py lines 113-116: the net cells of a row
NetCells(profits, np) ==
    [p \in 1 .. np |-> IF p <= Len(profits) THEN profits[p] ELSE None]

\* data_script.py lines 85-129: the second pass and the CSV file
DsBuildRows ==
    /\ script = "data_script"
    /\ bpc = "rows"
    /\ bpc' = "done"
    /\ IF hands = << >>
         THEN rows' = << >>                       \* "No hands found."
         ELSE LET np == Len(hands[1].chips)
              IN  rows' = [i \in 1 .. Len(hands) |->
                             Row(hands[i].game_index, hands[i].winner, << >>,
                                 NetCells(Profits(hands, i, np), np), << >>, << >>)]
    /\ UNCHANGED << script, ndocs, game_index, hands, trace, last_doc >>
    /\ UNCHANGED << replayVars, docVars, pathVars, t2Vars, agentVars >>

\* the variables of a replay, while no replay runs
ReplayIdle ==
    /\ num_players = 0
    /\ big_blind = None
    /\ small_blind = None
    /\ ledger = InitLedger(0, None, None)
    /\ rpc = "idle"
    /\ nsteps = 0
    /\ kinds_seen = [s \in 0 .. MaxPlayers + 1 |-> {}]
    /\ pos_added = 0
    /\ neg_added = 0

InitBatch ==
    /\ script \in Scripts
    /\ bpc = "loop"
    /\ ndocs = 0
    /\ game_index = 0
    /\ hands = << >>
    /\ rows = << >>
    /\ trace = << >>
    /\ last_doc = << >>
    /\ ReplayIdle
    /\ DocIdle
    /\ PathsIdle
    /\ T2Idle
    /\ AgentIdle

NextBatch ==
    \/ AdvProcessDocument
    \/ T1ProcessDocument
    \/ DsProcessDocument
    \/ EndOfPaths
    \/ AdvBuildRows
    \/ T1BuildRows
    \/ DsBuildRows

SpecBatch == InitBatch /\ [][NextBatch]_vars

-----------------------------------------------------------------------------
(* Specification SpecDoc: one document through the parser and the ledger of *)
(* scrape_t1_advanced.py (lines 167-197 of main, for one path)              *)

\* the Player Chips: lines of a document
ChipsChoices ==
    { << >>,
      << Line("Player Chips:", << 500, 495, 507 >>, << >>) >>,
      << Line("Player Chips:", << 50, 60 >>, << >>) >>,
      << Line("Player Chips:", << 500, 495, 507 >>, << >>),
         Line("Player Chips:", << 506, 489, 505 >>, << >>) >>,
      << Line("Player Chips:", << >>, << >>),
         Line("Player Chips:", << 50, 60 >>, << >>) >> }

\* the blind lines of a document
BlindChoices ==
    { << >>,
      << Line("Big Blind:", << 2 >>, << >>), Line("Small Blind:", << 1 >>, << >>) >> }

\* "(0,RAISE,6);(1,CALL);(2,FOLD)"
ScenarioALine ==
    Line("", << >>, << Tok(0, "RAISE", Some(6)), Tok(1, "CALL", None), Tok(2, "FOLD", None) >>)

\* the street sections of a document
StreetChoices ==
    { << >>,
      << Line("PREFLOP", << >>, << >>), ScenarioALine, Line("SETTLE", << >>, << >>) >>,
      << Line("PREFLOP", << >>, << >>),
         Line("", << >>, << Tok(1, "CALL", None), Tok(2, "RAISE", None) >>),
         Line("FLOP", << >>, << >>),
         Line("", << >>, << Tok(0, "RAISE", Some(9)) >>) >>,
      << Line("PREFLOP", << >>, << >>),
         Line("", << >>, << Tok(0, "raise", Some(6)), Tok(1, "BET", Some(3)), Tok(2, "CALL", Some(1)) >>) >>,
      << Line("PREFLOP", << >>, << >>),
         Line("", << >>, << Tok(0, "CALL", None) >>),
         Line("New Cards:", << >>, << >>),
         Line("", << >>, << Tok(1, "RAISE", Some(6)), Tok(0, "CHECK", None) >>) >>,
      << Line("PREFLOP", << >>, << >>),
         Line("", << >>, << Tok(0, "FOLD", None), Tok(3, "CALL", None) >>) >>,
      << Line("PREFLOP", << >>, << >>),
         Line("", << >>, << Tok(1, "CALL", None), Tok(2, "RAISE", Some(4)) >>),
         Line("FLOP", << >>, << >>) >>,
      << Line("PREFLOP", << >>, << >>),
         Line("", << >>, << Tok(2, "CALL", Some(1)) >>) >>,
      << Line("PREFLOP", << >>, << >>),
         Line("", << >>, << Tok(2, "CALL", Some(1)), Tok(2, "CALL", Some(2)) >>) >>,
      << Line("", << >>, << Tok(0, "CALL", None) >>),
         Line("PREFLOP", << >>, << >>),
         Line("", << >>, << Tok(1, "RAISE", Some(6)) >>),
         Line("", << >>, << Tok(2, "BET", None), Tok(0, "FOLD", None) >>),
         Line("TURN", << >>, << >>),
         Line("", << >>, << Tok(2, "RAISE", Some(9)) >>) >> }

\* the Winners: lines of a document
WinnersChoices ==
    { << >>,
      << Line("Winners:", << >>, << >>) >>,
      << Line("Winners:", << 0 >>, << >>) >>,
      << Line("Winners:", << 2 >>, << >>) >>,
      << Line("Winners:", << 0, 2 >>, << >>) >>,
      << Line("Winners:", << 1, 0, 2 >>, << >>) >>,
      << Line("Winners:", << 1 >>, << >>), Line("Winners:", << >>, << >>) >> }

\* documents in the usual order of the sections, and documents with Winners:
\* lines before and after the Player Chips: lines
DocInputs ==
    { c \o b \o st \o w :
        c \in ChipsChoices, b \in BlindChoices, st \in StreetChoices, w \in WinnersChoices }
    \cup
    { w \o c \o w2 : w \in WinnersChoices, c \in ChipsChoices, w2 \in WinnersChoices }

InitDoc ==
    /\ doc \in DocInputs
    /\ dpc = "read"
    /\ parsed = Parsed(None, None, None, None, << >>)
    /\ result = InitLedger(0, None, None)
    /\ ReplayIdle
    /\ BatchIdle
    /\ PathsIdle
    /\ T2Idle
    /\ AgentIdle

\* lines 167-189: the document is read; without starting chips it is skipped
ReadDocument ==
    /\ dpc = "read"
    /\ LET blinds == extract_blinds(doc)
       IN  parsed' = Parsed(FirstChips(doc),
                            WinnerFrom(doc, None, "scrape_t1_advanced"),
                            blinds[1], blinds[2],
                            parse_preflop_actions(doc))
    /\ dpc' = IF IsNone(FirstChips(doc)) THEN "skipped" ELSE "parsed"
    /\ UNCHANGED << doc, result >>
    /\ UNCHANGED << replayVars, batchVars, pathVars, t2Vars, agentVars >>

\* lines 191-197: the preflop stream of the hand is replayed
ReplayDocument ==
    /\ dpc = "parsed"
    /\ LET L == calculate_voluntary_pot_and_preflop_raise(
                    parsed.preflop_actions, Len(parsed.starting_chips[1]),
                    parsed.big_blind, parsed.small_blind)
       IN  /\ result' = L
           /\ dpc' = IF L.err THEN "KeyError" ELSE "replayed"
    /\ UNCHANGED << doc, parsed >>
    /\ UNCHANGED << replayVars, batchVars, pathVars, t2Vars, agentVars >>

\* lines 199-208 and 221-236: what an accepted document with parse p and
\* returned dicts L contributes to its row, before the seats are rotated
HandRecord(p, L) ==
    [ starting_chips |-> p.starting_chips,
      winner         |-> p.winner,
      voluntary_pot  |-> L.voluntary_pot,
      preflop_raised |-> L.preflop_raised ]

\* lines 167-208 for document d: << >> when d is skipped or its replay raises,
\* else << its record >>
RecordOf(d) ==
    LET chips == FirstChips(d)
    IN  IF IsNone(chips) THEN None
        ELSE LET blinds == extract_blinds(d)
                 p == Parsed(chips, WinnerFrom(d, None, "scrape_t1_advanced"),
                             blinds[1], blinds[2], parse_preflop_actions(d))
                 L == calculate_voluntary_pot_and_preflop_raise(
                          p.preflop_actions, Len(chips[1]), blinds[1], blinds[2])
             IN  IF L.err THEN None ELSE Some(HandRecord(p, L))

NextDoc == ReadDocument \/ ReplayDocument

SpecDoc == InitDoc /\ [][NextDoc]_vars

-----------------------------------------------------------------------------
(* Specification SpecPaths: sorted(glob.glob(...), key=extract_file_index)   *)
(* A file name of the glob "texas*.pgn" is                                   *)
(*   matches  whether re.match(r"texas(?:\((\d+)\))?\.pgn$", base) succeeds  *)
(*   num      << n >> for texas(n).pgn, << >> when group 1 is None           *)
(*   name     the name itself                                                *)

FileName(name, matches, num) == [name |-> name, matches |-> matches, num |-> num]

\* data_script.py lines 33-46
extract_file_index_ds(f) ==
    IF ~f.matches THEN 999999
    ELSE IF IsNone(f.num) THEN 0
    ELSE f.num[1]

\* scrape_t1_advanced.py lines 152-155, scrape_t1.py lines 22-25:
\* "int(m.group(1)) if m and m.group(1) else 0"
extract_file_index(f) ==
    IF f.matches /\ ~IsNone(f.num) THEN f.num[1] ELSE 0

\* the script's own extract_file_index
FileIndexOf(script_name, f) ==
    IF script_name = "data_script" THEN extract_file_index_ds(f) ELSE extract_file_index(f)

RECURSIVE InsertByKey(_, _, _)
\* x placed after every element of the sorted list whose key is <= its own
InsertByKey(x, sorted, script_name) ==
    IF sorted = << >> THEN << x >>
    ELSE IF FileIndexOf(script_name, Head(sorted)) <= FileIndexOf(script_name, x)
      THEN << Head(sorted) >> \o InsertByKey(x, Tail(sorted), script_name)
    ELSE << x >> \o sorted

RECURSIVE SortedByKey(_, _)
\* sorted(list, key=extract_file_index): ascending and stable
SortedByKey(list, script_name) ==
    IF list = << >> THEN << >>
    ELSE InsertByKey(list[Len(list)],
                     SortedByKey(SubSeq(list, 1, Len(list) - 1), script_name),
                     script_name)

\* the file names a hand_history directory may hold
FileNameInputs ==
    { FileName("texas.pgn", TRUE, None),
      FileName("texas(1).pgn", TRUE, Some(1)),
      FileName("texas(2).pgn", TRUE, Some(2)),
      FileName("texas(999999).pgn", TRUE, Some(999999)),
      FileName("texas(1000000).pgn", TRUE, Some(1000000)),
      FileName("texas_old.pgn", FALSE, None) }

\* the lists of distinct file names glob may return, in any order
GlobResults ==
    UNION { { l \in [1 .. k -> FileNameInputs] :
                \A i, j \in 1 .. k : i # j => l[i] # l[j] } : k \in 0 .. MaxPaths }

InitPaths ==
    /\ script \in Scripts
    /\ paths \in GlobResults
    /\ sorted_paths = << >>
    /\ ppc = "glob"
    /\ bpc = "idle"
    /\ ndocs = 0
    /\ game_index = 0
    /\ hands = << >>
    /\ rows = << >>
    /\ trace = << >>
    /\ last_doc = << >>
    /\ ReplayIdle
    /\ DocIdle
    /\ T2Idle
    /\ AgentIdle

\* scrape_t1_advanced.py line 162, scrape_t1.py line 32, data_script.py lines 49-52
SortPaths ==
    /\ ppc = "glob"
    /\ sorted_paths' = SortedByKey(paths, script)
    /\ ppc' = "sorted"
    /\ UNCHANGED << paths, replayVars, batchVars, docVars, t2Vars, agentVars >>

NextPaths == SortPaths

SpecPaths == InitPaths /\ [][NextPaths]_vars

-----------------------------------------------------------------------------
(* scrape_t2.py: the search for texas.pgn, texas(1).pgn, ... and the parsing
   of each file into a result row.  History.import_history and the replay of
   TexasHoldEm._import_history belong to the texasholdem library; what they
   hand to parse_pgn_file is an input: the import may raise, the replay may
   yield no state, and otherwise they give the starting chips, the final chips
   and the settle record of a two-seat hand (test2.py plays max_players=2). *)

\* the file numbers a directory may hold
FileNumbers == 0 .. MaxFileIndex

\* what the library makes of one file
PgnFile(imports, replays, settle) ==
    [ imports      |-> imports,
      replays      |-> replays,
      player_chips |-> << 100, 90 >>,
      final_chips  |-> << 103, 87 >>,
      settle       |-> settle ]

\* settle: None, or the winner lists of settle.pot_winners in pot order
SettleInputs ==
    { None, Some(<< >>), Some(<< << >> >>), Some(<< << 0 >> >>),
      Some(<< << 1 >> >>), Some(<< << 0, 1 >> >>) }

PgnContents ==
    { PgnFile(FALSE, FALSE, None), PgnFile(TRUE, FALSE, None) }
      \cup { PgnFile(TRUE, TRUE, st) : st \in SettleInputs }

\* the label of a single winner when the parity of the index is left out
WinnerAgentNoSwap(winner_player, index) ==
    IF winner_player = 0 THEN "claude" ELSE "openai"

\* scrape_t2.py lines 81-86
WinnerAgent(winner_player, index) ==
    IF index % 2 = 0
    THEN IF winner_player = 0 THEN "claude" ELSE "openai"
    ELSE IF winner_player = 0 THEN "openai" ELSE "claude"

\* scrape_t2.py lines 73-92
WinnerLabel(settle, index) ==
    IF ~IsNone(settle) /\ settle[1] # << >>
    THEN LET winners == settle[1][1]
         IN  IF Len(winners) = 1
             THEN WinnerAgent(winners[1], index)
             ELSE "tie"
    ELSE "tie"

\* scrape_t2.py lines 32, 45-46: the calls that raise
ParseRaisesOn(content) == ~content.imports \/ ~content.replays

\* scrape_t2.py lines 35-37, 49-70, 94-100: the dictionary returned
parse_pgn_file(content, index) ==
    LET player0_start == content.player_chips[1]
        player1_start == content.player_chips[2]
        player0_net   == content.final_chips[1] - player0_start
        player1_net   == content.final_chips[2] - player1_start
    IN  [ winner       |-> WinnerLabel(content.settle, index),
          claude_start |-> IF index % 2 = 0 THEN player0_start ELSE player1_start,
          openai_start |-> IF index % 2 = 0 THEN player1_start ELSE player0_start,
          claude_net   |-> IF index % 2 = 0 THEN player0_net ELSE player1_net,
          openai_net   |-> IF index % 2 = 0 THEN player1_net ELSE player0_net ]

\* scrape_t2.py line 115
WithGameIndex(r, index) ==
    [ game_index   |-> index,
      winner       |-> r.winner,
      claude_start |-> r.claude_start,
      openai_start |-> r.openai_start,
      claude_net   |-> r.claude_net,
      openai_net   |-> r.openai_net ]

InitT2 ==
    /\ directory \in SUBSET FileNumbers
    /\ pgn_files = << >>
    /\ file_i = 1
    /\ tpc = "first"
    /\ t2_index = 0
    /\ results = << >>
    /\ parse_log = << >>
    /\ result_src = << >>
    /\ ReplayIdle
    /\ BatchIdle
    /\ DocIdle
    /\ PathsIdle
    /\ AgentIdle

\* scrape_t2.py lines 9-18
AddFirstFile ==
    /\ tpc = "first"
    /\ pgn_files' = IF 0 \in directory THEN << 0 >> ELSE << >>
    /\ tpc' = "search"
    /\ UNCHANGED << directory, file_i, t2_index, results, parse_log, result_src,
                    replayVars, batchVars, docVars, pathVars, agentVars >>

\* scrape_t2.py lines 19-23
AddNumberedFile ==
    /\ tpc = "search"
    /\ file_i \in directory
    /\ pgn_files' = Append(pgn_files, file_i)
    /\ file_i' = file_i + 1
    /\ UNCHANGED << directory, tpc, t2_index, results, parse_log, result_src,
                    replayVars, batchVars, docVars, pathVars, agentVars >>

\* scrape_t2.py lines 24-27, 107-111
BreakSearch ==
    /\ tpc = "search"
    /\ file_i \notin directory
    /\ tpc' = "parse"
    /\ UNCHANGED << directory, pgn_files, file_i, t2_index, results, parse_log,
                    result_src, replayVars, batchVars, docVars, pathVars,
                    agentVars >>

\* a raising file ends the whole loop
ParseRaisesAborts ==
    /\ tpc = "parse"
    /\ t2_index < Len(pgn_files)
    /\ \E content \in PgnContents :
         /\ ParseRaisesOn(content)
         /\ parse_log' = Append(parse_log,
                                [ path    |-> pgn_files[t2_index + 1],
                                  content |-> content ])
    /\ tpc' = "done"
    /\ UNCHANGED << directory, pgn_files, file_i, t2_index, results, result_src,
                    replayVars, batchVars, docVars, pathVars, agentVars >>

\* scrape_t2.py lines 112-114, 119-121
ParseRaises ==
    /\ tpc = "parse"
    /\ t2_index < Len(pgn_files)
    /\ \E content \in PgnContents :
         /\ ParseRaisesOn(content)
         /\ parse_log' = Append(parse_log,
                                [ path    |-> pgn_files[t2_index + 1],
                                  content |-> content ])
    /\ t2_index' = t2_index + 1
    /\ UNCHANGED << directory, pgn_files, file_i, tpc, results, result_src,
                    replayVars, batchVars, docVars, pathVars, agentVars >>

\* scrape_t2.py lines 112-118
ParseReturns ==
    /\ tpc = "parse"
    /\ t2_index < Len(pgn_files)
    /\ \E content \in PgnContents :
         /\ ~ParseRaisesOn(content)
         /\ parse_log' = Append(parse_log,
                                [ path    |-> pgn_files[t2_index + 1],
                                  content |-> content ])
         /\ results' = Append(results,
                              WithGameIndex(parse_pgn_file(content, t2_index),
                                            t2_index))
    /\ result_src' = Append(result_src, Len(parse_log) + 1)
    /\ t2_index' = t2_index + 1
    /\ UNCHANGED << directory, pgn_files, file_i, tpc,
                    replayVars, batchVars, docVars, pathVars, agentVars >>

\* scrape_t2.py lines 123-132
WriteCsv ==
    /\ tpc = "parse"
    /\ t2_index = Len(pgn_files)
    /\ tpc' = "done"
    /\ UNCHANGED << directory, pgn_files, file_i, t2_index, results, parse_log,
                    result_src, replayVars, batchVars, docVars, pathVars,
                    agentVars >>

NextT2 ==
    \/ AddFirstFile
    \/ AddNumberedFile
    \/ BreakSearch
    \/ ParseRaises
    \/ ParseReturns
    \/ WriteCsv

SpecT2 == InitT2 /\ [][NextT2]_vars

-----------------------------------------------------------------------------
(* texasholdem/agents/ai.py: what openai_agent and gemini_agent make of the
   model's answer.  The PlayerContext comes from the game (library code) and
   the answer from the model; both are inputs.  A JSON value is a record of
   its type and, for an integer, its value. *)

\* the members of ActionType
ActionNames == { "RAISE", "ALL_IN", "CALL", "CHECK", "FOLD" }

\* available_actions and raise_range (None, or start and stop of the range)
ContextInputs ==
    { [ available_actions |-> { "CALL", "FOLD" }, raise_range |-> None ],
      [ available_actions |-> { "CALL", "FOLD", "RAISE", "ALL_IN" },
        raise_range |-> Some([ start |-> 4, stop |-> 7 ]) ],
      [ available_actions |-> { "CHECK", "FOLD", "RAISE", "ALL_IN" },
        raise_range |-> Some([ start |-> 2, stop |-> 6 ]) ],
      [ available_actions |-> { "CALL", "FOLD", "RAISE", "ALL_IN" },
        raise_range |-> Some([ start |-> 5, stop |-> 5 ]) ],
      [ available_actions |-> { "CALL", "FOLD", "RAISE", "ALL_IN" },
        raise_range |-> None ] }

\* the "action" member: absent, a string, or a value that is no string
ActionMembers ==
    { [ t |-> "absent", v |-> "" ], [ t |-> "other", v |-> "" ] }
      \cup { [ t |-> "str", v |-> str] :
               str \in { "RAISE", "raise", "Call", "FOLD", "check", "ALL_IN",
                         "all-in", "BET" } }

\* the "total" member: absent or null, an integer, or a string
TotalMembers ==
    { JsonNull, JsonStr } \cup { JsonInt(n) : n \in { 1, 3, 4, 6, 7 } }

\* the text of the answer: no JSON, a JSON array, or a JSON object
ResponseInputs ==
    { [ json |-> j, action |-> [ t |-> "absent", v |-> "" ], total |-> JsonNull ] :
        j \in { "invalid", "array" } }
      \cup { [ json |-> "object", action |-> a, total |-> tot ] :
               a \in ActionMembers, tot \in TotalMembers }

\* str.upper on the strings of ActionMembers
Upper(str) ==
    CASE str = "raise"  -> "RAISE"
      [] str = "Call"   -> "CALL"
      [] str = "check"  -> "CHECK"
      [] str = "all-in" -> "ALL-IN"
      [] OTHER          -> str

\* bool(range(start, stop))
RangeOffered(raise_range) ==
    ~IsNone(raise_range) /\ raise_range[1].start < raise_range[1].stop

\* player_context.py lines 76-80: the "raise_range" entry of to_dict
to_dict_raise_range(raise_range) ==
    IF RangeOffered(raise_range)
    THEN Some([ min |-> raise_range[1].start, max |-> raise_range[1].stop - 1 ])
    ELSE None

Raised(kind) == [ kind |-> kind, action |-> "", total |-> JsonNull ]

Returned(action, total) == [ kind |-> "return", action |-> action, total |-> total ]

\* ai.py lines 122-152 and 255-288: from the parsed JSON to the tuple returned
\* or the exception raised there
ValidateResponse(ctx, resp) ==
    IF resp.json = "array" \/ resp.action.t = "other"
    THEN Raised("AttributeError")                     \* .get, .upper
    ELSE
      LET action_str == Upper(resp.action.v)
          total      == resp.total
      IN  IF action_str \notin ActionNames THEN Raised("ValueError")
          ELSE IF action_str \notin ctx.available_actions THEN Raised("ValueError")
          ELSE IF action_str = "RAISE"
          THEN IF total.t = "null" THEN Raised("ValueError")
               ELSE IF RangeOffered(ctx.raise_range)
               THEN IF total.t = "str" THEN Raised("TypeError")   \* str < int
                    ELSE IF \/ total.v < ctx.raise_range[1].start
                            \/ total.v >= ctx.raise_range[1].stop
                         THEN Raised("ValueError")
                         ELSE Returned(action_str, total)
               ELSE Returned(action_str, total)
          ELSE Returned(action_str, JsonNull)

\* ai.py lines 99-159: json.loads and the two except clauses
openai_agent(ctx, resp) ==
    IF resp.json = "invalid" THEN Raised("ValueError")
    ELSE LET o == ValidateResponse(ctx, resp)
         IN  IF o.kind \in { "return", "ValueError" } THEN o
             ELSE Raised("ValueError")

\* ai.py lines 248-288: only json.loads stands in a try
gemini_agent(ctx, resp) ==
    IF resp.json = "invalid" THEN Raised("ValueError")
    ELSE ValidateResponse(ctx, resp)

InitAgent ==
    /\ context \in ContextInputs
    /\ response = [ json |-> "invalid", action |-> [ t |-> "absent", v |-> "" ],
                    total |-> JsonNull ]
    /\ outcome = NoOutcome
    /\ apc = "ask"
    /\ ReplayIdle
    /\ BatchIdle
    /\ DocIdle
    /\ PathsIdle
    /\ T2Idle

\* ai.py lines 19-159
OpenAIAgent ==
    /\ apc = "ask"
    /\ \E resp \in ResponseInputs :
         /\ response' = resp
         /\ outcome' = openai_agent(context, resp)
    /\ apc' = "openai_agent"
    /\ UNCHANGED << context, replayVars, batchVars, docVars, pathVars, t2Vars >>

\* ai.py lines 161-288
GeminiAgent ==
    /\ apc = "ask"
    /\ \E resp \in ResponseInputs :
         /\ response' = resp
         /\ outcome' = gemini_agent(context, resp)
    /\ apc' = "gemini_agent"
    /\ UNCHANGED << context, replayVars, batchVars, docVars, pathVars, t2Vars >>

NextAgent ==
    \/ OpenAIAgent
    \/ GeminiAgent

SpecAgent == InitAgent /\ [][NextAgent]_vars

-----------------------------------------------------------------------------
(* Properties *)

\* C1: in every written CSV, each seat of each hand but the last has the net
\* profit (next hand's starting chips - this hand's starting chips) at that
\* seat, and each seat of the last hand has the blank cell; no seat is left out.
C1_NetProfitEverySeat ==
    bpc = "done" =>
      /\ Len(rows) = Len(hands)
      /\ \A i \in 1 .. Len(hands) : \A p \in 1 .. Len(hands[i].chips) :
           /\ p \in DOMAIN rows[i].net
           /\ IF i < Len(hands)
                THEN p <= Len(hands[i + 1].chips) =>
                       rows[i].net[p] = Some(hands[i + 1].chips[p] - hands[i].chips[p])
                ELSE rows[i].net[p] = None

\* C2: when the replay of a preflop stream returns, no seat's voluntary
\* contribution is negative.
C2_VoluntaryNonNegative ==
    rpc = "returned" =>
      \A s \in Range(num_players) : ledger.voluntary_pot[s] >= 0

\* C3: a seat that has met only CHECK and FOLD events, or none, has a voluntary
\* contribution of 0, whatever blind it posted and whatever the others did.
C3_BlindsNeverVoluntary ==
    \A s \in Range(num_players) :
      kinds_seen[s] \subseteq {"CHECK", "FOLD"} => ledger.voluntary_pot[s] = 0

\* C3 witness: the big blind of a 3-seat table has only checked, holds its blind
\* as committed amount, and another seat has put chips in voluntarily.
C3_Witness ==
    /\ rpc = "returned"
    /\ num_players = 3
    /\ big_blind = Some(2)
    /\ kinds_seen[2] = {"CHECK"}
    /\ ledger.player_bets[2] = 2
    /\ ledger.voluntary_pot[2] = 0
    /\ ledger.voluntary_pot[0] > 0

\* C4: when the replay returns, the voluntary contributions sum to the sum of
\* the positive amounts added during the replay, and no negative amount was added.
C4_SumOfPositiveDeltas ==
    rpc = "returned" =>
      /\ SumOver(ledger.voluntary_pot, Range(num_players)) = pos_added
      /\ neg_added = 0

\* a document of scenario A: 3 seats, blinds 2 and 1, "(0,RAISE,6);(1,CALL);(2,FOLD)"
IsScenarioA(d) ==
    \E c \in ChipsChoices, w \in WinnersChoices :
      /\ c # << >>
      /\ Len(c[1].nums) = 3
      /\ d = c \o << Line("Big Blind:", << 2 >>, << >>), Line("Small Blind:", << 1 >>, << >>) >>
               \o << Line("PREFLOP", << >>, << >>), ScenarioALine, Line("SETTLE", << >>, << >>) >>
               \o w

\* C5: scenario A yields voluntary 6, 5, 0 and raised true, false, false for
\* seats 0, 1, 2.
C5_ScenarioA ==
    (dpc = "replayed" /\ IsScenarioA(doc)) =>
      /\ result.voluntary_pot = (0 :> 6 @@ 1 :> 5 @@ 2 :> 0)
      /\ result.preflop_raised = (0 :> TRUE @@ 1 :> FALSE @@ 2 :> FALSE)

\* C5 witness: a scenario A document has been parsed into its three actions and replayed.
C5_Witness ==
    /\ dpc = "replayed"
    /\ IsScenarioA(doc)
    /\ Len(parsed.preflop_actions) = 3
    /\ parsed.winner = Some(0)

\* C6: in every hand, each emitted index holds the chips and the voluntary
\* contribution / raised flag of one and the same raw seat.
C6_SameSeatMapping ==
    \A i \in 1 .. Len(trace) :
      trace[i].vp_src # << >> => trace[i].vp_src = trace[i].chip_src

\* src lists every raw seat of a table of n seats exactly once
IsSeatPermutation(src, n) ==
    /\ Len(src) = n
    /\ { src[p] : p \in 1 .. Len(src) } = Range(n)

\* C7: in every hand, the seat mapping of the chips and the seat mapping of the
\* voluntary contributions and raised flags each send the raw seats 0..n-1 onto
\* 0..n-1, and the emitted chips are the raw chips rearranged.
C7_RotationBijection ==
    \A i \in 1 .. Len(trace) :
      LET n == Len(trace[i].raw_chips)
      IN  /\ IsSeatPermutation(trace[i].chip_src, n)
          /\ trace[i].vp_src # << >> => IsSeatPermutation(trace[i].vp_src, n)
          /\ Len(hands[i].chips) = n
          /\ \A p \in 1 .. n :
               hands[i].chips[p] = trace[i].raw_chips[trace[i].chip_src[p] + 1]

\* C7 witness: a batch with a hand rotated by a non-zero offset, a later hand
\* (not the first) rotated by offset 0, and a one-seat hand.
C7_Witness ==
    /\ script = "scrape_t1_advanced"
    /\ \E i, j, k \in 1 .. Len(trace) :
         /\ trace[i].shift # 0
         /\ trace[j].shift = 0 /\ hands[j].game_index > 0 /\ Len(trace[j].raw_chips) > 1
         /\ Len(trace[k].raw_chips) = 1

\* C8: the rotation applied to a hand is (hand ordinal mod table size), in both
\* rotating scripts and for every table size.
C8_OffsetIsOrdinalModSize ==
    script \in {"scrape_t1_advanced", "scrape_t1"} =>
      \A i \in 1 .. Len(trace) :
        trace[i].shift = hands[i].game_index % Len(trace[i].raw_chips)

\* C9: once a document is read, the winner is "none" for an empty bracket, the
\* seat for a bracket with one index, and "none" (never the first listed seat)
\* for a bracket with several indices.
C9_WinnerPolicy ==
    dpc \in {"parsed", "skipped", "replayed", "KeyError"} =>
      LET w == LastLabelled(doc, "Winners:")
      IN  ~IsNone(w) =>
            /\ w[1].nums = << >> => parsed.winner = None
            /\ Len(w[1].nums) = 1 => parsed.winner = Some(w[1].nums[1])
            /\ Len(w[1].nums) >= 2 =>
                 /\ parsed.winner = None
                 /\ parsed.winner # Some(w[1].nums[1])

\* C9 witness: a document whose Winners line lists seats 0 and 2 has been read
\* with no single winner.
C9_Witness ==
    /\ dpc = "parsed"
    /\ LastLabelled(doc, "Winners:") = Some(Line("Winners:", << 0, 2 >>, << >>))
    /\ parsed.winner = None

\* C10: the ordinals of the hands, and of the rows written, are 0, 1, ..., k-1
\* in order, whatever documents were skipped.
C10_ContiguousOrdinals ==
    /\ \A i \in 1 .. Len(hands) : hands[i].game_index = i - 1
    /\ bpc = "done" => \A i \in 1 .. Len(rows) : rows[i].game_index = i - 1

\* C10 witness: a written CSV of at least two hands whose documents were
\* separated by a skipped one.
C10_Witness ==
    /\ bpc = "done"
    /\ Len(rows) >= 2
    /\ \E i \in 1 .. Len(trace) - 1 : trace[i + 1].path_pos > trace[i].path_pos + 1

\* the file index of a name that follows the convention: 0 for texas.pgn, n for texas(n).pgn
ConventionIndex(f) == IF IsNone(f.num) THEN 0 ELSE f.num[1]

\* C11: in the sorted list the names that follow the convention stand in the
\* order of their file index, and a name that does not follow it stands after
\* every name that does.
C11_FileIndexOrder ==
    ppc = "sorted" =>
      \A i, j \in 1 .. Len(sorted_paths) :
        i < j =>
          LET a == sorted_paths[i]
              b == sorted_paths[j]
          IN  /\ (a.matches /\ b.matches) => ConventionIndex(a) <= ConventionIndex(b)
              /\ ~a.matches => ~b.matches

\* C12: data_script never writes a CSV for hands whose starting-chip lists differ
\* in length: every non-terminal row holds a net profit for every seat of its
\* hand, computed from two lists of the same length.
C12_NoSilentTruncation ==
    (script = "data_script" /\ bpc = "done") =>
      \A i \in 1 .. Len(rows) - 1 :
        /\ Len(hands[i].chips) = Len(hands[i + 1].chips)
        /\ Len(rows[i].net) = Len(hands[i].chips)
        /\ \A p \in 1 .. Len(rows[i].net) : rows[i].net[p] # None

\* C13: the run is never ended by an exception while the document just read has
\* no starting-chip line, and such a document adds no hand.
C13_MissingChipsSkipped ==
    (last_doc # << >> /\ IsNone(FirstChips(last_doc))) =>
      /\ bpc \notin {"ValueError", "KeyError"}
      /\ \A i \in 1 .. Len(trace) : trace[i].path_pos # ndocs - 1

\* C14: a CALL or RAISE whose seat index is >= the table size never ends the
\* replay: it raises no error, leaves the committed, voluntary and raised
\* entries of every seat of the table as they are, and adds no result entry for
\* a seat outside 0..table_size-1.
C14_OutOfRangeSeatIgnored ==
    /\ rpc # "KeyError"
    /\ rpc = "loop" =>
         \A a \in ActionInputs(num_players) :
           (a.action \in {"CALL", "RAISE"} /\ a.player_id >= num_players) =>
             LET L2 == ApplyAction(ledger, a, big_blind)
             IN  /\ ~L2.err
                 /\ L2.player_bets = ledger.player_bets
                 /\ L2.voluntary_pot = ledger.voluntary_pot
                 /\ L2.preflop_raised = ledger.preflop_raised
                 /\ DOMAIN L2.preflop_raised = Range(num_players)

\* the highest amount committed by any seat of ledger L
MaxCommitted(L) ==
    CHOOSE m \in {L.player_bets[s] : s \in DOMAIN L.player_bets} :
      \A s \in DOMAIN L.player_bets : L.player_bets[s] <= m

\* C19: at every point of the replay the current bet level equals the highest
\* amount committed by any seat.
C19_LevelIsMaxCommitted ==
    rpc \in {"loop", "returned"} => ledger.current_raise_to = MaxCommitted(ledger)

\* C20: a RAISE by seat s with explicit total T sets committed[s] to T, adds
\* T - previous committed[s] to voluntary[s], sets has_raised[s], sets the bet
\* level to max(previous level, T), and changes no other seat's entries.
C20_RaiseWithTotal ==
    rpc = "loop" =>
      \A a \in ActionInputs(num_players) :
        (a.action = "RAISE" /\ ~IsNone(a.total) /\ a.player_id < num_players) =>
          LET L2 == ApplyAction(ledger, a, big_blind)
              s  == a.player_id
              T  == a.total[1]
          IN  /\ ~L2.err
              /\ L2.player_bets[s] = T
              /\ L2.voluntary_pot[s] = ledger.voluntary_pot[s] + (T - ledger.player_bets[s])
              /\ L2.preflop_raised[s]
              /\ L2.current_raise_to =
                   (IF ledger.current_raise_to >= T THEN ledger.current_raise_to ELSE T)
              /\ L2.current_raise_to >= ledger.current_raise_to
              /\ \A o \in Range(num_players) \ {s} :
                   /\ L2.player_bets[o] = ledger.player_bets[o]
                   /\ L2.voluntary_pot[o] = ledger.voluntary_pot[o]
                   /\ L2.preflop_raised[o] = ledger.preflop_raised[o]

\* C15: once scrape_t1_advanced has ended its second pass there is exactly one
\* record per accepted hand, in increasing ordinal order, and each record holds
\* a starting-chip, net-profit, voluntary and raised entry for every seat of
\* its hand, whatever the table size.
C15_OneFullRecordPerHand ==
    (script = "scrape_t1_advanced" /\ bpc \in {"done", "IndexError"}) =>
      /\ Len(rows) = Len(hands)
      /\ \A i \in 1 .. Len(rows) :
           LET n == Len(hands[i].chips)
           IN  /\ rows[i].game_index = hands[i].game_index
               /\ i < Len(rows) => rows[i].game_index < rows[i + 1].game_index
               /\ Len(rows[i].start) = n
               /\ Len(rows[i].net) = n
               /\ Len(rows[i].vp) = n
               /\ Len(rows[i].pr) = n

\* a PREFLOP, FLOP, TURN or RIVER header line
HasStreet(d) ==
    \E i \in 1 .. Len(d) : d[i].label \in {"PREFLOP", "FLOP", "TURN", "RIVER"}

\* C16: a document with a starting-chip line but no street section is rejected:
\* it is neither handed to the replay nor emitted as a hand.
C16_NoStreetRejected ==
    dpc \in {"parsed", "replayed", "KeyError"} => HasStreet(doc)

\* the preflop stream of d holds a RAISE without total
MetAmbiguousRaise(d) ==
    LET acts == parse_preflop_actions(d)
    IN  \E i \in 1 .. Len(acts) : acts[i].action = "RAISE" /\ IsNone(acts[i].total)

\* the preflop stream of d holds a token outside {CHECK, CALL, RAISE, FOLD}
MetUnrecognized(d) ==
    LET acts == parse_preflop_actions(d)
    IN  \E i \in 1 .. Len(acts) : acts[i].action \notin {"CHECK", "CALL", "RAISE", "FOLD"}

RECURSIVE NegativeDeltaFrom(_, _, _)
\* the replay of actions from ledger L meets a total below the seat's committed amount
NegativeDeltaFrom(L, actions, bb) ==
    /\ actions # << >>
    /\ ~L.err
    /\ LET a == Head(actions)
       IN  \/ /\ a.action \in {"CALL", "RAISE"}
              /\ a.player_id \in DOMAIN L.player_bets
              /\ ~IsNone(a.total)
              /\ a.total[1] < L.player_bets[a.player_id]
           \/ NegativeDeltaFrom(ApplyAction(L, a, bb), Tail(actions), bb)

MetNegativeDelta(d) ==
    LET chips  == FirstChips(d)
        blinds == extract_blinds(d)
    IN  /\ ~IsNone(chips)
        /\ NegativeDeltaFrom(InitLedger(Len(chips[1]), blinds[1], blinds[2]),
                             parse_preflop_actions(d), blinds[1])

IsFlagged(d) == MetAmbiguousRaise(d) \/ MetUnrecognized(d) \/ MetNegativeDelta(d)

\* C17: the record of an emitted hand tells a flagged hand from a clean one: no
\* hand that met a RAISE without total, an unrecognized token or a total below
\* the committed amount is emitted as the very record a clean hand is emitted as.
C17_FlaggedNotReportedClean ==
    (dpc = "replayed" /\ IsFlagged(doc)) =>
      /\ RecordOf(doc) = Some(HandRecord(parsed, result))
      /\ \A d2 \in DocInputs : ~IsFlagged(d2) => RecordOf(d2) # RecordOf(doc)

\* C21: a CALL without total by a seat of the table, at bet level L: when
\* L > committed[s], voluntary[s] grows by L - committed[s] and committed[s]
\* becomes L; otherwise nothing changes; the level, the raised flags and every
\* other seat's values are unchanged in both cases.
C21_CallWithoutTotal ==
    rpc = "loop" =>
      \A a \in ActionInputs(num_players) :
        (a.action = "CALL" /\ IsNone(a.total) /\ a.player_id < num_players) =>
          LET L2  == ApplyAction(ledger, a, big_blind)
              s   == a.player_id
              lvl == ledger.current_raise_to
          IN  /\ ~L2.err
              /\ IF lvl > ledger.player_bets[s]
                   THEN /\ L2.voluntary_pot[s] =
                             ledger.voluntary_pot[s] + (lvl - ledger.player_bets[s])
                        /\ L2.player_bets[s] = lvl
                   ELSE L2 = ledger
              /\ L2.current_raise_to = lvl
              /\ L2.preflop_raised = ledger.preflop_raised
              /\ \A o \in Range(num_players) \ {s} :
                   /\ L2.player_bets[o] = ledger.player_bets[o]
                   /\ L2.voluntary_pot[o] = ledger.voluntary_pot[o]

\* a CALL without total has moved seat 0 from 0 to the level 2
C21_Witness ==
    /\ rpc = "loop"
    /\ nsteps = 1
    /\ num_players = 3
    /\ kinds_seen[0] = {"CALL"}
    /\ ledger.player_bets[0] = 2
    /\ ledger.voluntary_pot[0] = 2

\* C22: CHECK and FOLD change nothing in the ledger.
C22_CheckFoldNoChange ==
    rpc = "loop" =>
      \A a \in ActionInputs(num_players) :
        a.action \in {"CHECK", "FOLD"} => ApplyAction(ledger, a, big_blind) = ledger

\* after a RAISE to 6 by seat 0, seat 0 has folded and seat 1 has checked
C22_Witness ==
    /\ rpc = "loop"
    /\ nsteps = 3
    /\ kinds_seen[0] = {"RAISE", "FOLD"}
    /\ kinds_seen[1] = {"CHECK"}
    /\ ledger.player_bets[0] = 6
    /\ ledger.player_bets[1] = 1

\* the target a RAISE without total must infer at ledger L
DoubleLevel(L, bb) ==
    IF L.current_raise_to # 0 THEN 2 * L.current_raise_to
    ELSE IF IsNone(bb) THEN 0 ELSE 2 * bb[1]

\* C23: a RAISE without total by a seat of the table infers twice the current
\* level (twice the big blind at level 0); when that exceeds committed[s],
\* committed[s] and the level become the target and voluntary[s] grows by the
\* difference; otherwise committed, voluntary and the level stay unchanged.
C23_RaiseWithoutTotal ==
    rpc = "loop" =>
      \A a \in ActionInputs(num_players) :
        (a.action = "RAISE" /\ IsNone(a.total) /\ a.player_id < num_players) =>
          LET L2     == ApplyAction(ledger, a, big_blind)
              s      == a.player_id
              target == DoubleLevel(ledger, big_blind)
          IN  /\ ~L2.err
              /\ IF target > ledger.player_bets[s]
                   THEN /\ L2.player_bets[s] = target
                        /\ L2.current_raise_to = target
                        /\ L2.voluntary_pot[s] =
                             ledger.voluntary_pot[s] + (target - ledger.player_bets[s])
                   ELSE /\ L2.player_bets = ledger.player_bets
                        /\ L2.voluntary_pot = ledger.voluntary_pot
                        /\ L2.current_raise_to = ledger.current_raise_to

\* level 0 under a big blind of 2 (after a RAISE to 0), then a RAISE without
\* total by seat 0 has inferred 4
C23_Witness ==
    /\ rpc = "loop"
    /\ nsteps = 2
    /\ big_blind = Some(2)
    /\ kinds_seen[1] = {"RAISE"}
    /\ ledger.player_bets[1] = 0
    /\ kinds_seen[0] = {"RAISE"}
    /\ ledger.player_bets[0] = 4
    /\ ledger.voluntary_pot[0] = 4
    /\ ledger.current_raise_to = 4

\* C24: while the replay runs and when it returns, has_raised[s] holds exactly
\* for the seats of the table that have had a RAISE event, applied or not.
C24_RaisedIffRaiseSeen ==
    rpc \in {"loop", "returned"} =>
      /\ DOMAIN ledger.preflop_raised = Range(num_players)
      /\ \A s \in Range(num_players) :
           ledger.preflop_raised[s] <=> ("RAISE" \in kinds_seen[s])

\* seat 0 raised without effect (no blinds, no total), then called; seat 1 never raised
C24_Witness ==
    /\ rpc = "returned"
    /\ big_blind = None
    /\ kinds_seen[0] = {"RAISE", "CALL"}
    /\ ledger.preflop_raised[0]
    /\ ledger.voluntary_pot[0] = 0
    /\ kinds_seen[1] = {"CALL"}
    /\ ~ledger.preflop_raised[1]

\* the kinds of the action vocabulary
IsVocabulary(a) == a.action \in {"CHECK", "CALL", "RAISE", "FOLD"}

RECURSIVE TokensOfLines(_, _, _)
\* the tokens of lines i .. j of document d, line by line, left to right
TokensOfLines(d, i, j) ==
    IF i > j THEN << >> ELSE d[i].toks \o TokensOfLines(d, i + 1, j)

\* the tokens of d after its first PREFLOP header and before the first
\* following FLOP, TURN, RIVER or SETTLE header
PreflopSection(d) ==
    LET hdrs == {i \in 1 .. Len(d) : d[i].label = "PREFLOP"}
    IN  IF hdrs = {} THEN << >>
        ELSE LET h    == CHOOSE i \in hdrs : \A k \in hdrs : i <= k
                 ends == {i \in h + 1 .. Len(d) :
                            d[i].label \in {"FLOP", "TURN", "RIVER", "SETTLE"}}
                 e    == IF ends = {} THEN Len(d) + 1
                         ELSE CHOOSE i \in ends : \A k \in ends : i <= k
             IN  TokensOfLines(d, h + 1, e - 1)

\* C25: the tokens of a kind outside the vocabulary stay in the parsed stream
\* at their positions, and the replay of the stream, failure included, is the
\* replay of the stream without them.
C25_UnrecognizedIgnored ==
    (dpc \in {"replayed", "KeyError"} /\ MetUnrecognized(doc)) =>
      /\ parsed.preflop_actions = PreflopSection(doc)
      /\ result = calculate_voluntary_pot_and_preflop_raise(
                      SelectSeq(parsed.preflop_actions, IsVocabulary),
                      Len(parsed.starting_chips[1]), parsed.big_blind, parsed.small_blind)

\* 'raise' and 'BET' are the first two events of the stream and the CALL after
\* them has been applied
C25_Witness ==
    /\ dpc = "replayed"
    /\ Len(parsed.preflop_actions) = 3
    /\ parsed.preflop_actions[1].action = "raise"
    /\ parsed.preflop_actions[2].action = "BET"
    /\ result.voluntary_pot[2] = 1
    /\ result.voluntary_pot[0] = 0
    /\ \A s \in DOMAIN result.preflop_raised : ~result.preflop_raised[s]

\* C26: the parsed stream is the tokens of the preflop section, in document
\* order, none dropped or duplicated; it is empty without a PREFLOP header.
C26_PreflopSectionInOrder ==
    dpc \in {"parsed", "skipped", "replayed", "KeyError"} =>
      parsed.preflop_actions = PreflopSection(doc)

\* tokens stand before the PREFLOP header and after the TURN header, and the
\* stream holds the three tokens of the two lines between them
C26_Witness ==
    /\ dpc = "parsed"
    /\ \E i \in 1 .. Len(doc) - 1 : doc[i].toks # << >> /\ doc[i + 1].label = "PREFLOP"
    /\ \E i \in 1 .. Len(doc) - 1 : doc[i].label = "TURN" /\ doc[i + 1].toks # << >>
    /\ parsed.preflop_actions =
         << Tok(1, "RAISE", Some(6)), Tok(2, "BET", None), Tok(0, "FOLD", None) >>

\* C27: before the first event of a replay with both blinds given, for every
\* table size, the small blind and the big blind are the committed amounts of
\* two distinct seats, every other seat starts at 0, every voluntary total is 0
\* and the bet level is the big blind.
C27_BlindsPlacedEveryTableSize ==
    (rpc = "loop" /\ nsteps = 0 /\ ~IsNone(big_blind) /\ ~IsNone(small_blind)) =>
      /\ \E s1, s2 \in Range(num_players) :
           /\ s1 # s2
           /\ ledger.player_bets[s1] = small_blind[1]
           /\ ledger.player_bets[s2] = big_blind[1]
           /\ \A o \in Range(num_players) \ {s1, s2} : ledger.player_bets[o] = 0
      /\ SumOver(ledger.player_bets, Range(num_players)) = small_blind[1] + big_blind[1]
      /\ \A s \in Range(num_players) : ledger.voluntary_pot[s] = 0
      /\ ledger.current_raise_to = big_blind[1]

\* C28: while the replay runs and when it returns, every seat's voluntary
\* contribution is its committed amount minus its initial blind amount.
C28_VoluntaryIsCommittedMinusBlind ==
    rpc \in {"loop", "returned"} =>
      \A s \in Range(num_players) :
        ledger.voluntary_pot[s] =
          ledger.player_bets[s]
            - InitLedger(num_players, big_blind, small_blind).player_bets[s]

\* the big blind's total 0 took 2 out of its voluntary amount, another seat
\* added chips, with blinds 1 and 2 at a 3-seat table
C28_Witness ==
    /\ rpc = "returned"
    /\ num_players = 3
    /\ big_blind = Some(2)
    /\ neg_added = 1
    /\ pos_added > 0
    /\ ledger.voluntary_pot[2] = 0 - 2
    /\ ledger.player_bets[2] = 0
    /\ "RAISE" \in kinds_seen[0]
    /\ ledger.voluntary_pot[0] = 4

\* C29: the winner of the hand appended last stands for the raw winner seat of
\* its Winners line seen through the rotation of the hand's starting chips: the
\* emitted index is the one where the raw winner's chips stand.
C29_WinnerRemapped ==
    (/\ script \in {"scrape_t1_advanced", "scrape_t1"}
     /\ bpc = "loop"
     /\ trace # << >>
     /\ trace[Len(trace)].path_pos = ndocs - 1) =>
      LET t   == trace[Len(trace)]
          h   == hands[Len(hands)]
          raw == WinnerFrom(last_doc, None, script)
      IN  (~IsNone(raw) /\ raw[1] < Len(t.raw_chips)) =>
            /\ ~IsNone(h.winner)
            /\ h.winner[1] < Len(t.raw_chips)
            /\ t.chip_src[h.winner[1] + 1] = raw[1]

\* the positions of the lines of d that start with label
LabelIndexes(d, label) == {i \in 1 .. Len(d) : d[i].label = label}

LeastOf(S) == CHOOSE i \in S : \A k \in S : i <= k

GreatestOf(S) == CHOOSE i \in S : \A k \in S : k <= i

C31_ExtractWinnerEquivalent ==
    dpc # "idle" =>
      \A i \in LabelIndexes(doc, "Winners:") :
        /\ ~IntRaises(doc[i])
        /\ extract_winner_t1(doc[i]) = extract_winner(doc[i])
        /\ extract_winner_ds(doc[i]) = extract_winner(doc[i])


\* the agent test2.py seats at a seat in the hand of an index (lines 11-16)
AgentAtSeat(seat, index) ==
    IF (seat + index) % 2 = 0 THEN "claude" ELSE "openai"

\* the seat of an agent in the hand of an index
SeatOfAgent(agent, index) ==
    CHOOSE seat \in {0, 1} : AgentAtSeat(seat, index) = agent

\* the winners of a hand: those of its first pot, none without a settle record
HandWinners(settle) ==
    IF IsNone(settle) \/ settle[1] = << >> THEN << >> ELSE settle[1][1]

\* C32: every result of parse_pgn_file gives Claude the start and the net of
\* seat 0 when the game index is even and of seat 1 when it is odd, OpenAI those
\* of the other seat; a single winner at seat w carries the label of the agent
\* at seat w under that mapping; no winner, no settle record or several winners
\* carry the label 'tie'.
C32_ParitySwapConsistent ==
    \A k \in 1 .. Len(results) :
      LET r  == results[k]
          c  == parse_log[result_src[k]].content
          g  == r.game_index
          cs == SeatOfAgent("claude", g) + 1
          os == SeatOfAgent("openai", g) + 1
          w  == HandWinners(c.settle)
      IN  /\ cs = IF g % 2 = 0 THEN 1 ELSE 2
          /\ os = IF g % 2 = 0 THEN 2 ELSE 1
          /\ r.claude_start = c.player_chips[cs]
          /\ r.openai_start = c.player_chips[os]
          /\ r.claude_net = c.final_chips[cs] - c.player_chips[cs]
          /\ r.openai_net = c.final_chips[os] - c.player_chips[os]
          /\ r.winner = IF Len(w) = 1 THEN AgentAtSeat(w[1], g) ELSE "tie"

\* C32 witness: a hand of odd index won by seat 0 alone was labelled, and a
\* hand with two winners was labelled.
C32_Witness ==
    /\ \E k \in 1 .. Len(results) :
         /\ results[k].game_index % 2 = 1
         /\ HandWinners(parse_log[result_src[k]].content.settle) = << 0 >>
         /\ results[k].winner = "openai"
    /\ \E k \in 1 .. Len(results) :
         Len(HandWinners(parse_log[result_src[k]].content.settle)) = 2

\* C33: a file whose parsing raises does not end the run: when main is done
\* every file of the list was handed to parse_pgn_file in list order and every
\* file that parsed has a result; each result's game_index is the position of
\* its file in the list.
C33_FailureSkippedIndexKept ==
    /\ \A k \in 1 .. Len(results) :
         /\ result_src[k] = results[k].game_index + 1
         /\ result_src[k] \in 1 .. Len(pgn_files)
         /\ parse_log[result_src[k]].path = pgn_files[results[k].game_index + 1]
    /\ tpc = "done" =>
         /\ Len(parse_log) = Len(pgn_files)
         /\ \A j \in 1 .. Len(pgn_files) :
              /\ parse_log[j].path = pgn_files[j]
              /\ ~ParseRaisesOn(parse_log[j].content) =>
                   \E k \in 1 .. Len(results) : result_src[k] = j

\* C33 witness: the run is done, a file raised, and a later file has a result.
C33_Witness ==
    /\ tpc = "done"
    /\ \E j \in 1 .. Len(parse_log) :
         /\ ParseRaisesOn(parse_log[j].content)
         /\ \E k \in 1 .. Len(results) : result_src[k] > j

\* C34: the list get_pgn_files returns holds every file of the directory,
\* each once, in strictly increasing file number (texas.pgn first).
C34_AllFilesReturned ==
    tpc \in {"parse", "done"} =>
      /\ { pgn_files[a] : a \in 1 .. Len(pgn_files) } = directory
      /\ \A a, b \in 1 .. Len(pgn_files) : a < b => pgn_files[a] < pgn_files[b]


\* the outcome of C35 for a finished call: a returned action is available, a
\* non-RAISE action has no total, a RAISE has a total that lies within the
\* bounds to_dict advertised when a range is offered; otherwise ValueError
AgentOutcomeValid ==
    IF outcome.kind = "return"
    THEN /\ outcome.action \in context.available_actions
         /\ outcome.action # "RAISE" => outcome.total = JsonNull
         /\ outcome.action = "RAISE" =>
              /\ outcome.total # JsonNull
              /\ LET adv == to_dict_raise_range(context.raise_range)
                 IN  ~IsNone(adv) =>
                       /\ outcome.total.t = "int"
                       /\ adv[1].min <= outcome.total.v
                       /\ outcome.total.v <= adv[1].max
    ELSE outcome.kind = "ValueError"

\* C35: when openai_agent or gemini_agent returns, the action is available,
\* total is None for a non-RAISE action and for RAISE it is given and, with a
\* raise range offered, within the [min, max] that to_dict advertised; every
\* other answer of the model ends in a ValueError.
C35_AgentReturnValid ==
    apc \in { "openai_agent", "gemini_agent" } => AgentOutcomeValid

=============================================================================
